---- MODULE Spec2Model ----
(***************************************************************************)
(* A model of the `relation` crate (src/src/lib.rs): a Relation<I, F>      *)
(* holds a current number and a by-value transition closure, and offers    *)
(* calculate_next (peek), next (advance one step) and nth (advance n       *)
(* steps and return the current number).                                   *)
(*                                                                         *)
(* I is instantiated at i32, the type of the integer test                  *)
(* (Relation::new(1, |x| x + 1)).  The transition closures are the ones    *)
(* the tests pass (x + 1, x / 2, x * 2), evaluated with i32 semantics:     *)
(* division truncates toward zero; an overflowing + or * panics in a debug *)
(* build and wraps (two's complement) in a release build.                  *)
(* The f64 tests are outside the model.                                    *)
(*                                                                         *)
(* Besides the Relation under test (`self`) the model carries a clone of   *)
(* it (`twin`, Relation derives Copy and Clone) that is driven by its own  *)
(* calls, so that two call sequences can be compared from the same state.  *)
(*                                                                         *)
(* Spec runs the methods as whole calls on self and on the clone.          *)
(* LoopSpec runs nth one loop iteration at a time.  IncSpec is the integer *)
(* test: the closure x + 1, with nth(100) among the calls.                 *)
(***************************************************************************)
EXTENDS Integers, Sequences, FiniteSets, TLC

VARIABLES
    build,      \* "debug" | "release": decides what an i32 overflow does
    starter,    \* the starter given to Relation::new
    fn,         \* the closure given to Relation::new
    self,       \* the Relation: [current_number, relation]
    op,         \* the last method called on self
    arg,        \* the index of the last nth call on self
    ret,        \* the value the last call on self returned
    ncalls,     \* how many times the last call on self invoked the closure
    pre,        \* self, ret, op and steps as they were before the last call on self
    steps,      \* total steps self has advanced since construction
    advances,   \* number of next() and nth() calls made on self
    panicked,   \* a closure call panicked (overflow in a debug build)
    twin,       \* a clone of self
    twinRet,    \* the value the last call on twin returned
    twinPanicked, \* a closure call made through twin panicked
    owed,       \* steps self has advanced since the clone minus steps twin has
    mainLog,    \* the calls made on self since the clone
    twinNexts,  \* number of next() calls made on twin since the clone
    twinNths,   \* the indexes of the nth() calls made on twin since the clone
    pc,         \* "idle" | "loop": position inside a stepwise nth call
    i,          \* the loop counter of the stepwise nth call
    index       \* the index argument of the stepwise nth call

vars == <<build, starter, fn, self, op, arg, ret, ncalls, pre, steps, advances,
          panicked, twin, twinRet, twinPanicked, owed, mainLog, twinNexts, twinNths,
          pc, i, index>>

twinVars == <<twin, twinRet, twinPanicked, owed, twinNexts, twinNths>>
loopVars == <<pc, i, index>>

----------------------------------------------------------------------------
(* Bounds of the model *)

MaxStarter == 0
MaxIndex == 3
MaxAdvances == 2
MaxLog == 2

(* Program constants *)

I32_MAX == 2147483647
I32_MIN == -I32_MAX - 1
TestIndex == 100
TestStarter == 1

Builds == {"debug", "release"}
Relations == {"inc", "halve", "dbl"}
Starters == (-MaxStarter .. MaxStarter) \cup {TestStarter, I32_MIN, I32_MAX}
Indexes == 0 .. MaxIndex

NoRet == [some |-> FALSE, val |-> 0]
Some(v) == [some |-> TRUE, val |-> v]

----------------------------------------------------------------------------
(* The transition closures, with i32 arithmetic *)

\* 2^30: doubling overflows from here on
HALF == (I32_MAX \div 2) + 1

\* does f(x) overflow i32?
Overflows(f, x) ==
    CASE f = "inc" -> x = I32_MAX
      [] f = "dbl" -> x >= HALF \/ x < -HALF
      [] OTHER -> FALSE

\* x + 1 in two's complement
WrappingInc(x) == IF x = I32_MAX THEN I32_MIN ELSE x + 1

\* x * 2 in two's complement
WrappingDbl(x) ==
    IF x >= HALF THEN 2 * (x - HALF) + I32_MIN
    ELSE IF x < -HALF THEN (2 * (x + HALF) + I32_MAX) + 1
    ELSE 2 * x

\* x / 2, truncating toward zero
TruncHalve(x) == IF x >= 0 THEN x \div 2 ELSE (x + 1) \div 2

\* the value f(x) when the call returns
Wrapped(f, x) ==
    CASE f = "inc" -> WrappingInc(x)
      [] f = "dbl" -> WrappingDbl(x)
      [] OTHER -> TruncHalve(x)

\* invoking a copy of closure f on x
Call(f, x) ==
    IF build = "debug" /\ Overflows(f, x)
    THEN [panic |-> TRUE, val |-> x]
    ELSE [panic |-> FALSE, val |-> Wrapped(f, x)]

----------------------------------------------------------------------------
(* The methods of Relation, as functions of the receiver *)

\* bug: the constructor already advances once
new_advanced(s, f) == [current_number |-> Wrapped(f, s), relation |-> f]

new(s, f) == [current_number |-> s, relation |-> f]

\* bug: the peek stores what it computed
calculate_next_stores(s) ==
    LET r == Call(s.relation, s.current_number)
    IN  [self |-> [s EXCEPT !.current_number = r.val], panic |-> r.panic,
         ret |-> r.val, calls |-> 1]

\* bug: the peek returns the current number
calculate_next_returns_current(s) ==
    LET r == Call(s.relation, s.current_number)
    IN  [self |-> s, panic |-> r.panic, ret |-> s.current_number, calls |-> 1]

calculate_next(s) ==
    LET r == Call(s.relation, s.current_number)
    IN  [self |-> s, panic |-> r.panic, ret |-> r.val, calls |-> 1]

\* bug: next computes the next number and drops it
next_drops_result(s) ==
    LET r == calculate_next(s)
    IN  [self |-> s, panic |-> r.panic, calls |-> r.calls]

\* bug: next applies the closure to its own result again
next_twice(s) ==
    LET r == calculate_next(s)
    IN  IF r.panic
        THEN [self |-> s, panic |-> TRUE, calls |-> r.calls]
        ELSE LET q == calculate_next([s EXCEPT !.current_number = r.ret])
             IN  IF q.panic
                 THEN [self |-> s, panic |-> TRUE, calls |-> r.calls + q.calls]
                 ELSE [self |-> [s EXCEPT !.current_number = q.ret],
                       panic |-> FALSE, calls |-> r.calls + q.calls]

next(s) ==
    LET r == calculate_next(s)
    IN  IF r.panic
        THEN [self |-> s, panic |-> TRUE, calls |-> r.calls]
        ELSE [self |-> [s EXCEPT !.current_number = r.ret],
              panic |-> FALSE, calls |-> r.calls]

\* bug: the range is 0..=index
LoopContinues_inclusive(k, n) == k <= n

\* bug: the range is index..0, which is empty
LoopContinues_reversed(k, n) == k >= n /\ k < 0

\* for _ in 0..index
LoopContinues(k, n) == k < n

RECURSIVE nth_loop(_, _, _)
nth_loop(s, k, n) ==
    IF LoopContinues(k, n)
    THEN LET r == next(s)
         IN  IF r.panic
             THEN [self |-> s, panic |-> TRUE, iters |-> k]
             ELSE nth_loop(r.self, k + 1, n)
    ELSE [self |-> s, panic |-> FALSE, iters |-> k]

\* what nth hands back once its loop is over: self.current_number
Returned(r) ==
    [self |-> r.self, panic |-> r.panic, ret |-> r.self.current_number,
     calls |-> IF r.panic THEN r.iters + 1 ELSE r.iters, iters |-> r.iters]

\* bug: the range is 1..index
nth_from_one(s, n) == Returned(nth_loop(s, 1, n))

\* bug: a do-while loop, the body runs before the first test
nth_do_while(s, n) == Returned(nth_loop(s, 0, IF n = 0 THEN 1 ELSE n))

nth(s, n) == Returned(nth_loop(s, 0, n))

----------------------------------------------------------------------------
(* Logs of the calls since the clone; a log that would exceed MaxLog
   entries collapses to Overflow *)

Entry(o, n) == [op |-> o, n |-> n]
Overflow == <<Entry("overflow", 0)>>
Log(l, e) ==
    IF l = Overflow \/ Len(l) >= MaxLog THEN Overflow ELSE Append(l, e)

Snapshot == [self |-> self, ret |-> ret, op |-> op, steps |-> steps]

----------------------------------------------------------------------------
Init ==
    /\ build \in Builds
    /\ starter \in Starters
    /\ fn \in Relations
    /\ self = new(starter, fn)
    /\ op = "new"
    /\ arg = 0
    /\ ret = NoRet
    /\ ncalls = 0
    /\ pre = [self |-> self, ret |-> NoRet, op |-> "none", steps |-> 0]
    /\ steps = 0
    /\ advances = 0
    /\ panicked = FALSE
    /\ twin = self
    /\ twinRet = NoRet
    /\ twinPanicked = FALSE
    /\ owed = 0
    /\ mainLog = <<>>
    /\ twinNexts = 0
    /\ twinNths = <<>>
    /\ pc = "idle"
    /\ i = 0
    /\ index = 0

\* a panic unwinds the thread: nothing is called after it
Alive == ~panicked /\ ~twinPanicked
Ready == Alive /\ pc = "idle"

\* relation.calculate_next()
CalculateNext ==
    /\ Ready
    /\ LET r == calculate_next(self)
       IN  /\ self' = r.self
           /\ panicked' = r.panic
           /\ ret' = IF r.panic THEN NoRet ELSE Some(r.ret)
           /\ ncalls' = r.calls
    /\ op' = "calculate_next"
    /\ arg' = 0
    /\ pre' = Snapshot
    /\ mainLog' = Log(mainLog, Entry("calculate_next", 0))
    /\ UNCHANGED <<build, starter, fn, steps, advances, twinVars, loopVars>>

\* relation.next()
Next_ ==
    /\ Ready
    /\ advances < MaxAdvances
    /\ advances' = advances + 1
    /\ LET r == next(self)
       IN  /\ self' = r.self
           /\ panicked' = r.panic
           /\ ncalls' = r.calls
           /\ steps' = IF r.panic THEN steps ELSE steps + 1
           /\ owed' = IF r.panic THEN owed ELSE owed + 1
    /\ ret' = NoRet
    /\ op' = "next"
    /\ arg' = 0
    /\ pre' = Snapshot
    /\ mainLog' = Log(mainLog, Entry("next", 0))
    /\ UNCHANGED <<build, starter, fn, twin, twinRet, twinPanicked, twinNexts,
                   twinNths, loopVars>>

\* relation.nth(n)
Nth(n) ==
    /\ Ready
    /\ advances < MaxAdvances
    /\ advances' = advances + 1
    /\ LET r == nth(self, n)
       IN  /\ self' = r.self
           /\ panicked' = r.panic
           /\ ret' = IF r.panic THEN NoRet ELSE Some(r.ret)
           /\ ncalls' = r.calls
           /\ steps' = IF r.panic THEN steps + r.iters ELSE steps + n
           /\ owed' = IF r.panic THEN owed + r.iters ELSE owed + n
    /\ op' = "nth"
    /\ arg' = n
    /\ pre' = Snapshot
    /\ mainLog' = Log(mainLog, Entry("nth", n))
    /\ UNCHANGED <<build, starter, fn, twin, twinRet, twinPanicked, twinNexts,
                   twinNths, loopVars>>

\* let twin = relation;  (Relation is Copy)
Fork ==
    /\ Ready
    /\ mainLog # <<>> \/ twinNexts # 0 \/ twinNths # <<>>
    /\ twin' = self
    /\ twinRet' = NoRet
    /\ owed' = 0
    /\ UNCHANGED twinPanicked
    /\ mainLog' = <<>>
    /\ twinNexts' = 0
    /\ twinNths' = <<>>
    /\ UNCHANGED <<build, starter, fn, self, op, arg, ret, ncalls, pre, steps,
                   advances, panicked, loopVars>>

\* twin.next()
TwinNext ==
    /\ Ready
    /\ owed >= 0
    /\ twinNths = <<>>
    /\ twinNexts <= MaxIndex
    /\ LET r == next(twin)
       IN  /\ twin' = r.self
           /\ twinPanicked' = r.panic
           /\ owed' = IF r.panic THEN owed ELSE owed - 1
    /\ twinRet' = NoRet
    /\ twinNexts' = twinNexts + 1
    /\ UNCHANGED <<build, starter, fn, self, op, arg, ret, ncalls, pre, steps,
                   advances, panicked, mainLog, twinNths, loopVars>>

\* twin.nth(n)
TwinNth(n) ==
    /\ Ready
    /\ owed >= 0
    /\ n <= owed
    /\ twinNths = <<>>
    /\ twinNexts = 0
    /\ LET r == nth(twin, n)
       IN  /\ twin' = r.self
           /\ twinPanicked' = r.panic
           /\ twinRet' = IF r.panic THEN NoRet ELSE Some(r.ret)
           /\ owed' = IF r.panic THEN owed - r.iters ELSE owed - n
    /\ twinNths' = Log(twinNths, Entry("nth", n))
    /\ UNCHANGED <<build, starter, fn, self, op, arg, ret, ncalls, pre, steps,
                   advances, panicked, mainLog, twinNexts, loopVars>>

Next ==
    \/ CalculateNext
    \/ Next_
    \/ \E n \in Indexes : Nth(n)
    \/ Fork
    \/ TwinNext
    \/ \E n \in Indexes \cup {owed} : TwinNth(n)

Spec == Init /\ [][Next]_vars

----------------------------------------------------------------------------
(* nth, one loop iteration at a time *)

\* relation.nth(n) is entered
NthEnter(n) ==
    /\ Ready
    /\ advances < MaxAdvances
    /\ advances' = advances + 1
    /\ pc' = "loop"
    /\ i' = 0
    /\ index' = n
    /\ op' = "nth"
    /\ arg' = n
    /\ ret' = NoRet
    /\ ncalls' = 0
    /\ pre' = Snapshot
    /\ mainLog' = Log(mainLog, Entry("nth", n))
    /\ UNCHANGED <<build, starter, fn, self, steps, panicked, twinVars>>

\* one iteration of `for _ in 0..index { self.next(); }`
NthIter ==
    /\ pc = "loop"
    /\ Alive
    /\ LoopContinues(i, index)
    /\ LET r == next(self)
       IN  /\ self' = r.self
           /\ panicked' = r.panic
           /\ ncalls' = ncalls + r.calls
           /\ i' = IF r.panic THEN i ELSE i + 1
           /\ steps' = IF r.panic THEN steps ELSE steps + 1
           /\ owed' = IF r.panic THEN owed ELSE owed + 1
    /\ UNCHANGED <<build, starter, fn, op, arg, ret, pre, advances, twin, twinRet,
                   twinPanicked, mainLog, twinNexts, twinNths, pc, index>>

\* the loop is over: self.current_number is returned
NthReturn ==
    /\ pc = "loop"
    /\ Alive
    /\ ~LoopContinues(i, index)
    /\ ret' = Some(self.current_number)
    /\ pc' = "idle"
    /\ UNCHANGED <<build, starter, fn, self, op, arg, ncalls, pre, steps, advances,
                   panicked, twinVars, mainLog, i, index>>

LoopNext ==
    \/ CalculateNext
    \/ Next_
    \/ \E n \in Indexes : NthEnter(n)
    \/ NthIter
    \/ NthReturn

\* the calls are synchronous: a loop that can go on does go on
LoopSpec ==
    /\ Init
    /\ [][LoopNext]_vars
    /\ WF_vars(NthIter)
    /\ WF_vars(NthReturn)

----------------------------------------------------------------------------
(* The integer test, tests::test_relation: Relation::new(s, |x| x + 1),
   driven by calculate_next, next and nth, nth(100) included *)

IncInit == Init /\ fn = "inc"

IncNext ==
    \/ CalculateNext
    \/ Next_
    \/ \E n \in Indexes \cup {TestIndex} : NthEnter(n)
    \/ NthIter
    \/ NthReturn

IncSpec == IncInit /\ [][IncNext]_vars

----------------------------------------------------------------------------
(* Properties *)

\* the transition f applied j times to x, when no application panics
RECURSIVE Iter(_, _, _)
Iter(f, x, j) == IF j = 0 THEN x ELSE Wrapped(f, Iter(f, x, j - 1))

NthEntry(n) == Entry("nth", n)
PeekEntry == Entry("calculate_next", 0)
OnlyNexts(k) == twinNths = <<>> /\ twinNexts = k
OnlyNth(n) == twinNths = <<NthEntry(n)>> /\ twinNexts = 0
Peeked(l) == \E j \in 1 .. Len(l) : l[j].op \in {"calculate_next", "overflow"}

\* C1: nth(k) is k consecutive next() calls. With self having made the one
\* call nth(k) and its clone k calls of next(), both are in the same state and
\* nth returned that current number; and a calculate_next() made right after
\* nth(k) returns the current number the clone has after one more next().
C1_NthIsRepeatedNext ==
    Alive =>
        \A k \in Indexes :
            /\ (mainLog = <<NthEntry(k)>> /\ OnlyNexts(k)) =>
                   (self = twin /\ ret = Some(twin.current_number))
            /\ (mainLog = <<NthEntry(k), PeekEntry>> /\ OnlyNexts(k + 1)) =>
                   ret = Some(twin.current_number)

C1_Witness ==
    /\ Alive
    /\ mainLog = <<NthEntry(MaxIndex), PeekEntry>>
    /\ OnlyNexts(MaxIndex + 1)
    /\ ret = Some(twin.current_number)
    /\ self.current_number # pre.self.current_number
       \/ twin.current_number # self.current_number

\* C2: calculate_next() returns transition(current) and leaves the Relation
\* as it was; two calls in a row return the same value; and a Relation that
\* was peeked at ends in the same state, with the same value returned by nth,
\* as its clone that made the same advancing calls and was never peeked at.
C2_PeekIsPure ==
    /\ op = "calculate_next" => self = pre.self /\ steps = pre.steps
    /\ (op = "calculate_next" /\ ~panicked) =>
           /\ ret = Some(Wrapped(pre.self.relation, pre.self.current_number))
           /\ ncalls = 1
           /\ pre.op = "calculate_next" => ret = pre.ret
    /\ (Alive /\ owed = 0 /\ Peeked(mainLog)) => self = twin
    /\ Alive =>
           \A k \in Indexes :
               (mainLog = <<PeekEntry, NthEntry(k)>> /\ OnlyNth(k)) => ret = twinRet

C2_Witness ==
    /\ Alive
    /\ mainLog = <<PeekEntry, NthEntry(MaxIndex)>>
    /\ OnlyNth(MaxIndex)
    /\ ret = twinRet
    /\ ret # pre.ret
    /\ self.current_number # starter

\* C3: nth(a) followed by nth(b) leaves the Relation in the state, and returns
\* the value, that the single call nth(a + b) gives from the same state.
C3_NthComposes ==
    Alive =>
        \A a, b \in Indexes :
            (mainLog = <<NthEntry(a), NthEntry(b)>> /\ OnlyNth(a + b)) =>
                (self = twin /\ ret = twinRet)

C3_Witness ==
    /\ Alive
    /\ mainLog = <<NthEntry(1), NthEntry(MaxIndex)>>
    /\ OnlyNth(MaxIndex + 1)
    /\ self = twin
    /\ ret = twinRet
    /\ self.current_number # starter

\* C4: the current number is the transition applied to the starter as many
\* times as the Relation has advanced (one per next(), index per nth(index)).
C4_CurrentOnOrbit ==
    /\ self.current_number = Iter(fn, starter, steps)
    /\ twin.current_number = Iter(fn, starter, steps - owed)

C4_Witness ==
    /\ ~panicked
    /\ steps = 2 * MaxIndex
    /\ advances = 2
    /\ self.current_number # starter
    /\ self.current_number = Iter(fn, starter, steps)

\* C5: Relation::new(s, f) holds exactly s and f, having applied f zero times,
\* and does not fail.
C5_NewHoldsStarter ==
    op = "new" =>
        /\ self.current_number = starter
        /\ self.relation = fn
        /\ steps = 0
        /\ ~panicked

C5_Witness ==
    /\ op = "new"
    /\ self.current_number = starter
    /\ Wrapped(fn, starter) # starter

\* C6: next() performs exactly one step: the current number becomes
\* transition(old current number), which is what a calculate_next() made just
\* before returned; a calculate_next() made after it returns the transition of
\* the new current number.
C6_NextIsOneStep ==
    /\ (op = "next" /\ ~panicked) =>
           /\ self.current_number =
                  Wrapped(pre.self.relation, pre.self.current_number)
           /\ self.relation = pre.self.relation
           /\ ncalls = 1
           /\ steps = pre.steps + 1
           /\ pre.op = "calculate_next" => pre.ret = Some(self.current_number)
    /\ (op = "next" /\ panicked) => self = pre.self /\ steps = pre.steps
    /\ (op = "calculate_next" /\ pre.op = "next" /\ ~panicked) =>
           ret = Some(Wrapped(self.relation, self.current_number))

C6_Witness ==
    /\ op = "next"
    /\ ~panicked
    /\ pre.op = "calculate_next"
    /\ pre.ret = Some(self.current_number)
    /\ self.current_number # pre.self.current_number

\* C7: nth(0) can be called in every state, returns the current number, does
\* not invoke the transition and leaves the Relation as it was.
C7_NthZeroIsIdentity ==
    /\ (op = "nth" /\ arg = 0) =>
           /\ ~panicked
           /\ self = pre.self
           /\ ret = Some(pre.self.current_number)
           /\ ncalls = 0
           /\ steps = pre.steps
    /\ (Ready /\ advances < MaxAdvances) => ENABLED Nth(0)

C7_Witness ==
    /\ op = "nth"
    /\ arg = 0
    /\ steps > 0
    /\ self.current_number # starter
    /\ ret = Some(self.current_number)

\* C10: the closure a Relation holds is the one given to new, whatever is
\* called; and the current number changes only in next() and in nth(index)
\* with index > 0.
C10_RelationIsFixed ==
    /\ [](self.relation = fn /\ twin.relation = fn)
    /\ [][/\ self'.relation = self.relation
          /\ self'.current_number # self.current_number =>
                 (op' = "next" \/ (op' = "nth" /\ arg' > 0))]_vars

C10_Witness ==
    /\ op = "calculate_next"
    /\ pre.op = "nth"
    /\ advances = MaxAdvances
    /\ self.relation = fn
    /\ self.current_number # starter

\* the integer test's assertions (tests::test_relation)
IncScenario ==
    starter = TestStarter =>
        /\ (op = "calculate_next" /\ steps = 0) =>
               (ret = Some(2) /\ self.current_number = 1)
        /\ (pc = "idle" /\ steps = 1) => self.current_number = 2
        /\ (pc = "idle" /\ op = "nth" /\ arg = TestIndex /\ pre.steps = 1) =>
               (ret = Some(102) /\ self.current_number = 102)

\* starter + steps is no i32
PastMax == starter > 0 /\ steps > I32_MAX - starter

\* C8, as amended: for Relation::new(1, |x| x + 1), calculate_next() returns 2
\* while the current number is still 1, after one next() it is 2, and nth(100)
\* from there returns 102. For the increment and a starter s, after m steps
\* the current number is s + m as long as s + m <= i32::MAX; past that no
\* step is made in a debug build (the increment panics) and the number has
\* wrapped around to i32::MIN in a release build.
C8_IncrementUpToMax ==
    /\ IncScenario
    /\ ~PastMax => self.current_number = starter + steps
    /\ PastMax =>
           /\ build = "release"
           /\ self.current_number = I32_MIN + (steps - (I32_MAX - starter) - 1)

C8_Witness ==
    /\ starter = TestStarter
    /\ pc = "idle"
    /\ op = "nth"
    /\ arg = TestIndex
    /\ pre.op = "next"
    /\ pre.self.current_number = 2
    /\ steps = TestIndex + 1
    /\ ret = Some(102)

\* C8, as stated: the scenario, and for every starter s the current number
\* after m steps is s + m.
C8_IncrementAlways ==
    /\ IncScenario
    /\ IF PastMax THEN FALSE ELSE self.current_number = starter + steps

\* the closure returns for every argument
Total == build = "release" \/ fn = "halve"

\* C9: nth(count) completes for a total transition: its loop makes exactly
\* count iterations, each one next(), then returns the current number; no
\* call panics, and next() and nth() can be called again whenever a call
\* has returned.
C9_NthCompletes ==
    /\ [](pc = "loop" =>
              /\ i <= index
              /\ steps = pre.steps + i
              /\ Alive => ncalls = i)
    /\ []((pc = "idle" /\ op = "nth") =>
              /\ i = arg
              /\ ncalls = arg
              /\ steps = pre.steps + arg
              /\ ret = Some(self.current_number)
              /\ self.current_number =
                     Iter(pre.self.relation, pre.self.current_number, arg))
    /\ [](Total => Alive)
    /\ []((Total /\ pc = "idle" /\ advances < MaxAdvances) =>
              /\ ENABLED Next_
              /\ \A n \in Indexes : ENABLED NthEnter(n))
    /\ (Total /\ pc = "loop") ~> (pc = "idle")

C9_Witness ==
    /\ Total
    /\ pc = "idle"
    /\ op = "nth"
    /\ arg = MaxIndex
    /\ i = MaxIndex
    /\ ncalls = MaxIndex
    /\ self.current_number # pre.self.current_number

====
